---- MODULE Spec2Model ----
(***************************************************************************)
(* executor_runner.cpp: the load/execute cycle of main() and of            *)
(* PytorchJni::forward().  One cycle reserves the method allocator over    *)
(* the static method_allocator_pool, builds the memory-planned buffers,    *)
(* assembles the MemoryManager, binds the method, executes it once and     *)
(* destroys its locals in reverse order of declaration.                    *)
(*                                                                         *)
(* Addresses are integers.  The heap is 1..HeapSize, the static pool is    *)
(* [PoolBase, PoolBase + PoolSize).  A vector's storage of capacity c      *)
(* takes c address units.  0 is the null pointer.                          *)
(***************************************************************************)
EXTENDS Integers, Sequences, FiniteSets, TLC

\* sizeof(method_allocator_pool)
PoolSize == 4194304

\* Bounds of the model.
MaxBuffers == 2
MaxBufSize == 2
HeapSize == 9
MaxAllocs == 2
MaxCycles == 2

Threads == {1, 2}

VARIABLES
  active,   \* the threads that run cycles in this process
  halted,   \* "run", "aborted" (ET_CHECK / std::terminate) or "exited" (main returned)
  th,       \* per thread: the locals of main() / forward() and the position in it
  heap,     \* live heap blocks: base address -> [size, owner, kind, val]
  pool      \* what method_allocator_pool holds: the regions written, and by whom

vars == <<active, halted, th, heap, pool>>

----------------------------------------------------------------------------
\* Helpers.

Conc == Cardinality(active) > 1

Min(S) == CHOOSE x \in S : \A y \in S : x <= y

Last(s) == s[Len(s)]

SizeErr == 0 - 1

PoolBase == HeapSize + 1

EmptyHeap == [a \in {} |-> [size |-> 0, owner |-> 0, kind |-> "buf", val |-> 0]]

\* The address units a block of n bytes takes (a zero-size block is still a
\* distinct allocation).
Foot(n) == IF n = 0 THEN 1 ELSE n

Range(b, n) == b .. (b + Foot(n) - 1)

Occupied(h) == UNION {Range(b, h[b].size) : b \in DOMAIN h}

HeapAdd(h, b, n, t, kind) ==
  [a \in (DOMAIN h) \cup {b} |->
     IF a = b THEN [size |-> n, owner |-> t, kind |-> kind, val |-> 0] ELSE h[a]]

HeapFree(h, b) == [a \in (DOMAIN h) \ {b} |-> h[a]]

Max(S) == CHOOSE x \in S : \A y \in S : x >= y

\* Where operator new may place a block of n bytes: the lowest or the highest
\* free range of the heap that takes it (the concurrent specification keeps to
\* the lowest).
Fits(h, n) ==
  LET all == {b \in 1..HeapSize :
                /\ b + Foot(n) - 1 <= HeapSize
                /\ Range(b, n) \cap Occupied(h) = {}}
  IN IF all = {} THEN {}
     ELSE IF Conc THEN {Min(all)} ELSE {Min(all), Max(all)}

\* std::make_unique<uint8_t[]>(buffer_size): the addresses it may return.
NewBufferInPool(h, n) == {PoolBase}
NewBuffer(h, n) == Fits(h, n)

\* Span<uint8_t>{ptr, buffer_size}
SpanFor(ptr, buffer_size) == [ptr |-> ptr, size |-> buffer_size]

\* std::vector::push_back on the elements.
VecPrepend(elems, e) == <<e>> \o elems
VecAppend(elems, e) == Append(elems, e)

EmptyVec == [data |-> 0, cap |-> 0, elems |-> <<>>]

\* Capacity after growth (libstdc++ / libc++: doubling).
GrowCap(c) == IF c = 0 THEN 1 ELSE 2 * c

\* push_back on a vector whose storage lives on the heap: in place while there
\* is room, else new storage is allocated, the elements are moved and the old
\* storage is freed; an allocation failure (std::bad_alloc) leaves the vector
\* as it was.
PushBack(h, v, e, t, kind) ==
  IF Len(v.elems) < v.cap
  THEN {[ok |-> TRUE, heap |-> h, vec |-> [v EXCEPT !.elems = VecAppend(@, e)]]}
  ELSE LET c == GrowCap(v.cap) IN
       {[ok |-> TRUE,
         heap |-> HeapFree(HeapAdd(h, d, c, t, kind), v.data),
         vec |-> [data |-> d, cap |-> c, elems |-> VecAppend(v.elems, e)]]
          : d \in Fits(h, c)}
       \cup {[ok |-> FALSE, heap |-> h, vec |-> v]}

\* Result<T>::get() on an error Result does not return: the process aborts.
GetFails(sz) == sz = SizeErr

\* for (size_t id = 0; id < num_memory_planned_buffers; ++id)
LoopContinuesOffByOne(id, n) == id + 1 < n
LoopContinues(id, n) == id < n

----------------------------------------------------------------------------
\* The metadata arena.

NoAllocator == [built |-> FALSE, base |-> 0, size |-> 0, cur |-> 0]

\* MemoryAllocator(sizeof(method_allocator_pool), method_allocator_pool)
MethodAllocatorOversized == [built |-> TRUE, base |-> PoolBase, size |-> 2 * PoolSize, cur |-> 0]
MethodAllocator == [built |-> TRUE, base |-> PoolBase, size |-> PoolSize, cur |-> 0]

\* MemoryAllocator::allocate(n): bump the offset or fail; nothing else changes.
Allocate(a, n) ==
  IF n <= a.size - a.cur
  THEN [ok |-> TRUE, ptr |-> a.base + a.cur, ma |-> [a EXCEPT !.cur = @ + n]]
  ELSE [ok |-> FALSE, ptr |-> 0, ma |-> a]

Overlap(lo1, hi1, lo2, hi2) == lo1 < hi2 /\ lo2 < hi1

\* Writing bookkeeping into [lo, hi) of the pool replaces what was there.
PoolWrite(p, lo, hi, t) ==
  IF lo = hi THEN p
  ELSE {r \in p : ~Overlap(r.lo, r.hi, lo, hi)} \cup {[lo |-> lo, hi |-> hi, by |-> t]}

----------------------------------------------------------------------------
\* Inputs.

\* MethodMeta: num_memory_planned_buffers() and memory_planned_buffer_size(id).
Metas ==
  IF Conc THEN {[k |-> 1, sizes |-> <<1>>]}
  ELSE UNION {{[k |-> n, sizes |-> s] : s \in [1..n -> (0..MaxBufSize) \cup {SizeErr}]}
                : n \in 0..MaxBuffers}

\* The sizes load_method asks the method allocator for.
ReqSizes == IF Conc THEN {1} ELSE {1, PoolSize, PoolSize + 1}

CycleLimit == IF Conc THEN 1 ELSE MaxCycles

----------------------------------------------------------------------------
\* The locals of one call.

NoMethod == [bound |-> FALSE, ok |-> FALSE, regions |-> {}]
NoHA == [built |-> FALSE, data |-> 0, n |-> 0]
NoMM == [built |-> FALSE]

Fresh(entry, cycle) ==
  [pc |-> "loader", entry |-> entry, cycle |-> cycle, outcome |-> "none",
   programOk |-> TRUE, loggedLoaded |-> FALSE, queried |-> FALSE,
   meta |-> [k |-> 0, sizes |-> <<>>],
   ma |-> NoAllocator,
   planned_buffers |-> EmptyVec, planned_spans |-> EmptyVec,
   id |-> 0, allocFor |-> <<>>, buildFailed |-> FALSE,
   ha |-> NoHA, mm |-> NoMM,
   loadCalled |-> FALSE, loadFailed |-> FALSE, loaded |-> FALSE, allocLog |-> <<>>,
   method |-> NoMethod,
   inputs |-> "none", executed |-> FALSE, execOk |-> FALSE, execOn |-> 0,
   outputsRead |-> FALSE]

Idle == [Fresh("none", 0) EXCEPT !.pc = "idle"]

\* The statements of main() / forward() in program order, then the destructors
\* of the locals in reverse order of declaration.
ProgramOrder ==
  <<"loader", "parse", "name", "meta", "arena", "loop", "ha", "mm", "load",
    "inputs", "exec", "outputs", "dump", "free", "ret",
    "d_method", "d_mm", "d_spans", "d_buffers", "d_arena", "done">>

OrderBuffersFirst ==
  <<"loader", "parse", "name", "meta", "loop", "arena", "ha", "mm", "load",
    "inputs", "exec", "outputs", "dump", "free", "ret",
    "d_method", "d_mm", "d_spans", "d_buffers", "d_arena", "done">>

OrderManagerFirst ==
  <<"loader", "parse", "name", "meta", "arena", "ha", "mm", "loop", "load",
    "inputs", "exec", "outputs", "dump", "free", "ret",
    "d_method", "d_mm", "d_spans", "d_buffers", "d_arena", "done">>

OrderBuffersFreedFirst ==
  <<"loader", "parse", "name", "meta", "arena", "loop", "ha", "mm", "load",
    "inputs", "exec", "outputs", "dump", "free", "ret",
    "d_buffers", "d_spans", "d_method", "d_mm", "d_arena", "done">>

After(order, p) ==
  LET i == CHOOSE j \in 1..Len(order) : order[j] = p IN order[i + 1]

NextPcBuffersFirst(p) == After(OrderBuffersFirst, p)
NextPcManagerFirst(p) == After(OrderManagerFirst, p)
NextPcBuffersFreedFirst(p) == After(OrderBuffersFreedFirst, p)
NextPc(p) == After(ProgramOrder, p)

----------------------------------------------------------------------------
\* Steps.

Running(t) == t \in active /\ halted = "run"

Step(t, me, h, p) ==
  /\ th' = [th EXCEPT ![t] = me]
  /\ heap' = h
  /\ pool' = p
  /\ UNCHANGED <<active, halted>>

Goto(t, me) == Step(t, [me EXCEPT !.pc = NextPc(th[t].pc)], heap, pool)

\* ET_CHECK / ET_CHECK_MSG failing, Result::get() / operator-> on an error, and
\* std::terminate: the process is gone, and its memory with it.
Abort(t, me) ==
  /\ th' = [th EXCEPT ![t] = [me EXCEPT !.pc = "dead", !.outcome = "abort"]]
  /\ halted' = "aborted"
  /\ heap' = EmptyHeap
  /\ UNCHANGED <<active, pool>>

\* An exception leaving the function: main() has no handler (std::terminate);
\* forward() unwinds, destroying the locals constructed so far from `from` on.
Throw(t, me, h, from) ==
  IF me.entry = "main"
  THEN Abort(t, me)
  ELSE Step(t, [me EXCEPT !.pc = from, !.outcome = "exception"], h, pool)

\* main(argc, argv) starts the process's only cycle; forward() may be called
\* again and again.
Start(t) ==
  /\ Running(t)
  /\ th[t].pc \in {"idle", "done"}
  /\ th[t].cycle < CycleLimit
  /\ \E entry \in {"main", "forward"}, extra \in BOOLEAN :
       /\ entry = "main" => (t = 1 /\ th[t].pc = "idle")
       /\ extra => entry = "main"
       /\ IF extra
          THEN /\ th' = [th EXCEPT ![t] =
                          [Fresh(entry, th[t].cycle + 1) EXCEPT !.pc = "done", !.outcome = "usage"]]
               /\ halted' = "exited"
               /\ UNCHANGED <<active, heap, pool>>
          ELSE Step(t, Fresh(entry, th[t].cycle + 1), heap, pool)

\* FileDataLoader::from(model_path); ET_CHECK_MSG(loader.ok(), ...)
LoadFile(t) ==
  /\ Running(t)
  /\ th[t].pc = "loader"
  /\ \E ok \in BOOLEAN :
       IF ok THEN Goto(t, th[t]) ELSE Abort(t, th[t])

\* Program::load(); if (!program.ok()) { ET_LOG(Error, ...); }
\* ET_LOG(Info, "Model file %s is loaded.", model_path);
ParseProgram(t) ==
  /\ Running(t)
  /\ th[t].pc = "parse"
  /\ \E ok \in BOOLEAN :
       Goto(t, [th[t] EXCEPT !.programOk = ok, !.loggedLoaded = TRUE])

\* program->get_method_name(0); ET_CHECK_MSG(method_name_result.ok(), ...)
\* Result::operator-> on a program that failed to load aborts like get().
GetMethodName(t) ==
  /\ Running(t)
  /\ th[t].pc = "name"
  /\ LET me == [th[t] EXCEPT !.queried = TRUE] IN
     IF ~th[t].programOk
     THEN Abort(t, me)
     ELSE \E ok \in BOOLEAN : IF ok THEN Goto(t, me) ELSE Abort(t, me)

\* program->method_meta(method_name); ET_CHECK_MSG(method_meta.ok(), ...)
GetMethodMeta(t) ==
  /\ Running(t)
  /\ th[t].pc = "meta"
  /\ \/ Abort(t, th[t])
     \/ \E m \in Metas : Goto(t, [th[t] EXCEPT !.meta = m])

\* MemoryAllocator method_allocator{...}; enable_profiling(...)
ReserveArena(t) ==
  /\ Running(t)
  /\ th[t].pc = "arena"
  /\ Goto(t, [th[t] EXCEPT !.ma = MethodAllocator])

\* One iteration of the planned-buffer loop.
BuildBuffer(t) ==
  /\ Running(t)
  /\ th[t].pc = "loop"
  /\ LoopContinues(th[t].id, th[t].meta.k)
  /\ LET me == th[t]
         sz == me.meta.sizes[me.id + 1]
         failed == [me EXCEPT !.buildFailed = TRUE]
     IN
     IF GetFails(sz)
     THEN Abort(t, failed)
     ELSE \/ Throw(t, failed, heap, "d_spans")
          \/ \E b \in NewBuffer(heap, sz) :
               LET h1 == HeapAdd(heap, b, sz, t, "buf") IN
               \E o1 \in PushBack(h1, me.planned_buffers, b, t, "bufvec") :
                 IF ~o1.ok
                 THEN Throw(t, failed, HeapFree(h1, b), "d_spans")
                 ELSE \E o2 \in PushBack(o1.heap, me.planned_spans,
                                         SpanFor(Last(o1.vec.elems), sz), t, "spanvec") :
                        IF ~o2.ok
                        THEN Throw(t, [failed EXCEPT !.planned_buffers = o1.vec],
                                   o2.heap, "d_spans")
                        ELSE Step(t, [me EXCEPT !.planned_buffers = o1.vec,
                                                !.planned_spans = o2.vec,
                                                !.allocFor = Append(@, b),
                                                !.id = @ + 1],
                                  o2.heap, pool)

\* The loop condition fails: on to the next statement.
LoopExit(t) ==
  /\ Running(t)
  /\ th[t].pc = "loop"
  /\ ~LoopContinues(th[t].id, th[t].meta.k)
  /\ Goto(t, th[t])

\* HierarchicalAllocator planned_memory({planned_spans.data(), planned_spans.size()})
ConstructHA(t) ==
  /\ Running(t)
  /\ th[t].pc = "ha"
  /\ Goto(t, [th[t] EXCEPT !.ha = [built |-> TRUE,
                                   data |-> th[t].planned_spans.data,
                                   n |-> Len(th[t].planned_spans.elems)]])

\* MemoryManager memory_manager(&method_allocator, &planned_memory)
ConstructMM(t) ==
  /\ Running(t)
  /\ th[t].pc = "mm"
  /\ Goto(t, [th[t] EXCEPT !.mm = [built |-> TRUE]])

\* program->load_method(): one request to the method allocator.
LoadAlloc(t) ==
  /\ Running(t)
  /\ th[t].pc = "load"
  /\ ~th[t].loadFailed
  /\ Len(th[t].allocLog) < MaxAllocs
  /\ \E n \in ReqSizes :
       LET r == Allocate(th[t].ma, n)
           me == [th[t] EXCEPT !.loadCalled = TRUE,
                               !.ma = r.ma,
                               !.loadFailed = ~r.ok,
                               !.allocLog = Append(@, [req |-> n, ok |-> r.ok, ptr |-> r.ptr]),
                               !.method.regions =
                                  IF r.ok /\ n > 0 THEN @ \cup {[lo |-> r.ptr, hi |-> r.ptr + n]}
                                  ELSE @]
       IN Step(t, me, heap,
               IF r.ok THEN PoolWrite(pool, r.ptr, r.ptr + n, t) ELSE pool)

\* load_method() returns; ET_CHECK_MSG(method.ok(), ...)
LoadFinish(t) ==
  /\ Running(t)
  /\ th[t].pc = "load"
  /\ \E ok \in BOOLEAN :
       LET good == ok /\ ~th[t].loadFailed
           me == [th[t] EXCEPT !.loadCalled = TRUE, !.loaded = good,
                               !.method.bound = TRUE, !.method.ok = good]
       IN IF good THEN Goto(t, me) ELSE Abort(t, me)

\* util::PrepareInputTensors(*method)
PrepareInputs(t) ==
  /\ Running(t)
  /\ th[t].pc = "inputs"
  /\ Goto(t, [th[t] EXCEPT !.inputs = "prepared"])

\* The threads whose bookkeeping the pool holds where t's method keeps its own.
DescriptorOwners(t) ==
  IF th[t].method.regions = {} THEN {t}
  ELSE {r.by : r \in {q \in pool : \E m \in th[t].method.regions :
                                      Overlap(q.lo, q.hi, m.lo, m.hi)}}

SpanPtrs(u) == {th[u].planned_spans.elems[i].ptr : i \in 1..Len(th[u].planned_spans.elems)}

\* method->execute(): writes the planned buffers its bookkeeping points at;
\* ET_CHECK_MSG(status == Error::Ok, ...)
Execute(t) ==
  /\ Running(t)
  /\ th[t].pc = "exec"
  /\ \E u \in DescriptorOwners(t), ok \in BOOLEAN :
       LET me == [th[t] EXCEPT !.executed = TRUE, !.execOk = ok, !.execOn = u]
           h == [a \in DOMAIN heap |->
                   IF a \in SpanPtrs(u) /\ heap[a].kind = "buf"
                   THEN [heap[a] EXCEPT !.val = t] ELSE heap[a]]
       IN IF ok
          THEN Step(t, [me EXCEPT !.pc = NextPc("exec")], h, pool)
          ELSE Abort(t, me)

\* std::vector<EValue> outputs(method->outputs_size()); get_outputs(); ET_CHECK
GetOutputs(t) ==
  /\ Running(t)
  /\ th[t].pc = "outputs"
  /\ \/ Throw(t, th[t], heap, "d_method")
     \/ Abort(t, th[t])
     \/ Step(t, [th[t] EXCEPT !.outputsRead = TRUE,
                              !.pc = IF th[t].entry = "main" THEN NextPc("outputs")
                                     ELSE NextPc("dump")],
             heap, pool)

\* EXECUTORCH_DUMP_PROFILE_RESULTS (main only)
DumpProfile(t) ==
  /\ Running(t)
  /\ th[t].pc = "dump"
  /\ Goto(t, th[t])

\* util::FreeInputs(inputs)
FreeInputs(t) ==
  /\ Running(t)
  /\ th[t].pc = "free"
  /\ Goto(t, [th[t] EXCEPT !.inputs = "freed"])

\* return 0; / return jMethodOptionalNull(...);
Return(t) ==
  /\ Running(t)
  /\ th[t].pc = "ret"
  /\ Goto(t, [th[t] EXCEPT !.outcome = "ok"])

\* ~Result<Method>
DestroyMethod(t) ==
  /\ Running(t)
  /\ th[t].pc = "d_method"
  /\ Goto(t, [th[t] EXCEPT !.method = NoMethod])

\* ~MemoryManager, ~HierarchicalAllocator
DestroyMM(t) ==
  /\ Running(t)
  /\ th[t].pc = "d_mm"
  /\ Goto(t, [th[t] EXCEPT !.mm = NoMM, !.ha = NoHA])

\* ~vector<Span<uint8_t>>
DestroySpans(t) ==
  /\ Running(t)
  /\ th[t].pc = "d_spans"
  /\ Step(t, [th[t] EXCEPT !.pc = NextPc("d_spans"), !.planned_spans = EmptyVec],
          HeapFree(heap, th[t].planned_spans.data), pool)

\* ~vector<unique_ptr<uint8_t[]>>: every buffer, then the storage.
DestroyBuffers(t) ==
  /\ Running(t)
  /\ th[t].pc = "d_buffers"
  /\ LET v == th[t].planned_buffers
         gone == {v.elems[i] : i \in 1..Len(v.elems)} \cup {v.data}
     IN Step(t, [th[t] EXCEPT !.pc = NextPc("d_buffers"), !.planned_buffers = EmptyVec],
             [a \in (DOMAIN heap) \ gone |-> heap[a]], pool)

\* ~MemoryAllocator, then method_meta, program, loader; main() leaves the process.
DestroyArena(t) ==
  /\ Running(t)
  /\ th[t].pc = "d_arena"
  /\ th' = [th EXCEPT ![t] = [@ EXCEPT !.pc = NextPc("d_arena"), !.ma = NoAllocator]]
  /\ halted' = IF th[t].entry = "main" THEN "exited" ELSE halted
  /\ UNCHANGED <<active, heap, pool>>

----------------------------------------------------------------------------

InitCommon ==
  /\ halted = "run"
  /\ th = [t \in Threads |-> Idle]
  /\ heap = EmptyHeap
  /\ pool = {}

Init == active = {1} /\ InitCommon

InitConc == active = Threads /\ InitCommon

Next ==
  \/ \E t \in Threads : Start(t)
  \/ \E t \in Threads : LoadFile(t)
  \/ \E t \in Threads : ParseProgram(t)
  \/ \E t \in Threads : GetMethodName(t)
  \/ \E t \in Threads : GetMethodMeta(t)
  \/ \E t \in Threads : ReserveArena(t)
  \/ \E t \in Threads : BuildBuffer(t)
  \/ \E t \in Threads : LoopExit(t)
  \/ \E t \in Threads : ConstructHA(t)
  \/ \E t \in Threads : ConstructMM(t)
  \/ \E t \in Threads : LoadAlloc(t)
  \/ \E t \in Threads : LoadFinish(t)
  \/ \E t \in Threads : PrepareInputs(t)
  \/ \E t \in Threads : Execute(t)
  \/ \E t \in Threads : GetOutputs(t)
  \/ \E t \in Threads : DumpProfile(t)
  \/ \E t \in Threads : FreeInputs(t)
  \/ \E t \in Threads : Return(t)
  \/ \E t \in Threads : DestroyMethod(t)
  \/ \E t \in Threads : DestroyMM(t)
  \/ \E t \in Threads : DestroySpans(t)
  \/ \E t \in Threads : DestroyBuffers(t)
  \/ \E t \in Threads : DestroyArena(t)

\* One calling thread, cycle after cycle.
Spec == Init /\ [][Next]_vars

\* Two threads calling concurrently.
SpecConc == InitConc /\ [][Next]_vars

----------------------------------------------------------------------------
\* Properties.

Alive == halted = "run"

OwnBlocks(t) == {a \in DOMAIN heap : heap[a].owner = t}

BufBlocks == {a \in DOMAIN heap : heap[a].kind = "buf"}

\* The span points at a live planned buffer of its size.
SpanLive(sp) ==
  /\ sp.ptr \in DOMAIN heap
  /\ heap[sp.ptr].kind = "buf"
  /\ heap[sp.ptr].size = sp.size

\* Every planned buffer of t's meta is there, with its span and the span table.
BuffersComplete(t) ==
  LET me == th[t] IN
  /\ Len(me.planned_spans.elems) = me.meta.k
  /\ Len(me.planned_buffers.elems) = me.meta.k
  /\ \A i \in 1..Len(me.planned_spans.elems) : SpanLive(me.planned_spans.elems[i])
  /\ me.meta.k > 0 => me.planned_spans.data \in DOMAIN heap

RECURSIVE SumReq(_, _)
SumReq(log, i) == IF i = 0 THEN 0 ELSE SumReq(log, i - 1) + log[i].req

\* C1: the method allocator grants a request exactly while the cumulative
\* requested bytes stay within the pool's 4 MiB, at the next free offset of the
\* pool; the first request beyond fails with a null result, the consumed bytes
\* (high-water mark) stay what the earlier requests took, never above the
\* pool's size, and the earlier allocations keep their place and content.
C1_ArenaBounded ==
  \A t \in active :
    LET me == th[t]
        log == me.allocLog
        n == Len(log)
    IN me.ma.built =>
         /\ me.ma.cur <= PoolSize
         /\ me.ma.cur = IF n = 0 THEN 0
                        ELSE IF log[n].ok THEN SumReq(log, n) ELSE SumReq(log, n - 1)
         /\ \A i \in 1..n :
              /\ log[i].ok <=> SumReq(log, i) <= PoolSize
              /\ log[i].ok => /\ log[i].ptr = PoolBase + SumReq(log, i - 1)
                              /\ log[i].req > 0 =>
                                   [lo |-> log[i].ptr, hi |-> log[i].ptr + log[i].req,
                                    by |-> t] \in pool
              /\ ~log[i].ok => log[i].ptr = 0 /\ i = n

C1_Witness ==
  \E t \in active :
    /\ th[t].ma.built
    /\ Len(th[t].allocLog) = 2
    /\ th[t].allocLog[1].ok
    /\ ~th[t].allocLog[2].ok
    /\ th[t].ma.cur = th[t].allocLog[1].req

\* C2: the HierarchicalAllocator gets exactly k spans, and the span at position
\* id has the size the meta declares for id and points at the buffer that was
\* allocated for id.
C2_SpansMatchMeta ==
  \A t \in active :
    LET me == th[t] IN
    (Alive /\ me.ha.built) =>
      /\ me.ha.n = me.meta.k
      /\ me.ha.data = me.planned_spans.data
      /\ Len(me.planned_spans.elems) = me.meta.k
      /\ Len(me.allocFor) = me.meta.k
      /\ me.meta.k > 0 => me.ha.data \in DOMAIN heap /\ heap[me.ha.data].kind = "spanvec"
      /\ \A id \in 1..me.meta.k :
           /\ me.planned_spans.elems[id].size = me.meta.sizes[id]
           /\ me.planned_spans.elems[id].ptr = me.allocFor[id]
           /\ me.planned_buffers.elems[id] = me.allocFor[id]
           /\ SpanLive(me.planned_spans.elems[id])
           /\ \A j \in 1..me.meta.k : j # id => me.allocFor[j] # me.allocFor[id]

C2_Witness ==
  \E t \in active :
    /\ Alive
    /\ th[t].ha.built
    /\ th[t].meta.k = 2
    /\ th[t].meta.sizes[1] # th[t].meta.sizes[2]

\* C3: the allocators and the method exist only over the complete buffer set;
\* after a failed build none of them is constructed, load_method is not called,
\* and when the cycle has ended no block of it is left on the heap.
C3_AllOrNothing ==
  \A t \in active :
    LET me == th[t] IN
    /\ (Alive /\ (me.ha.built \/ me.mm.built \/ me.method.bound \/ me.pc = "load")) =>
         ~me.buildFailed /\ BuffersComplete(t)
    /\ me.buildFailed =>
         /\ ~me.ha.built /\ ~me.mm.built /\ ~me.method.bound /\ ~me.loadCalled
         /\ me.pc \in {"done", "dead"} => OwnBlocks(t) = {}
    /\ me.loadCalled => ~me.buildFailed

C3_Witness ==
  \E t \in active :
    /\ th[t].buildFailed
    /\ th[t].id >= 1
    /\ th[t].pc = "done"
    /\ OwnBlocks(t) = {}

\* C4: within a cycle the arena is there before any planned buffer, all planned
\* buffers before the allocators, the MemoryManager before load_method is
\* called, a successful load before execute, a successful execute before the
\* outputs are read, and a discarded cycle holds nothing.
C4_CycleOrder ==
  \A t \in active :
    LET me == th[t] IN
    /\ Alive =>
         /\ (OwnBlocks(t) # {} \/ me.planned_buffers # EmptyVec) => me.ma.built
         /\ me.ha.built => me.ma.built /\ BuffersComplete(t)
         /\ me.mm.built => me.ha.built
         /\ (me.method.bound \/ (me.loadCalled /\ me.pc = "load")) => me.mm.built
         /\ me.pc = "done" =>
              /\ ~me.ma.built /\ ~me.ha.built /\ ~me.mm.built /\ ~me.method.bound
              /\ me.planned_buffers = EmptyVec /\ me.planned_spans = EmptyVec
              /\ OwnBlocks(t) = {}
    /\ me.loadCalled => me.id = me.meta.k
    /\ me.inputs # "none" => me.loaded
    /\ me.executed => me.loaded /\ me.inputs # "none"
    /\ me.outputsRead => me.executed /\ me.execOk

C4_Witness ==
  \E t \in active :
    /\ th[t].pc = "done"
    /\ th[t].outcome = "ok"
    /\ th[t].outputsRead
    /\ th[t].cycle = 2

\* The arena's range and the planned buffers' ranges are pairwise disjoint.
NonOverlap ==
  \A t \in active :
    (Alive /\ th[t].ma.built) =>
      /\ \A a \in BufBlocks :
           ~Overlap(a, a + heap[a].size, th[t].ma.base, th[t].ma.base + th[t].ma.size)
      /\ \A a, b \in BufBlocks :
           a # b => ~Overlap(a, a + heap[a].size, b, b + heap[b].size)

\* load_method leaves the heap and the vectors alone.
LoadFrame ==
  \A t \in active :
    (th[t].pc = "load" /\ halted' = "run") =>
      /\ heap' = heap
      /\ th'[t].planned_buffers = th[t].planned_buffers
      /\ th'[t].planned_spans = th[t].planned_spans

\* execute leaves the arena alone and writes planned buffers only.
ExecFrame ==
  \A t \in active :
    (th[t].pc = "exec" /\ halted' = "run") =>
      /\ th'[t].ma = th[t].ma
      /\ pool' = pool
      /\ DOMAIN heap' = DOMAIN heap
      /\ \A a \in DOMAIN heap :
           heap'[a] # heap[a] => heap[a].kind = "buf" /\ a \in SpanPtrs(t)

\* C5: load_method takes arena bytes only and leaves the planned buffers as
\* they are, execute writes planned buffers only and leaves the arena's
\* consumed bytes as they are, and the arena and the planned buffers occupy
\* pairwise disjoint address ranges.
C5_Isolation == [](NonOverlap) /\ [][LoadFrame /\ ExecFrame]_vars

C5_Witness ==
  \E t \in active :
    /\ Alive
    /\ th[t].executed
    /\ th[t].ma.cur > 0
    /\ \E a \in BufBlocks : heap[a].val = t /\ heap[a].size > 0

\* What the MemoryManager of t refers to.
Regions(t) ==
  [arena |-> <<th[t].ma.base, th[t].ma.size>>,
   table |-> <<th[t].ha.data, th[t].ha.n>>,
   spans |-> th[t].planned_spans,
   buffers |-> {<<a, heap[a].size>> : a \in OwnBlocks(t) \cap BufBlocks}]

AssembledOverLiveRegions ==
  \A t \in active :
    (Alive /\ th[t].mm.built) =>
      /\ th[t].ma.built
      /\ th[t].ha.data = th[t].planned_spans.data
      /\ th[t].ha.n = Len(th[t].planned_spans.elems)
      /\ BuffersComplete(t)

RegionsStay ==
  \A t \in active :
    (th[t].mm.built /\ th'[t].mm.built /\ halted' = "run") => Regions(t)' = Regions(t)

\* C6: while the MemoryManager exists, the arena, the span table the
\* HierarchicalAllocator was given and every planned buffer keep their address
\* and size and stay allocated.
C6_StableRegions == [](AssembledOverLiveRegions) /\ [][RegionsStay]_vars

C6_Witness ==
  \E t \in active :
    /\ Alive
    /\ th[t].mm.built
    /\ th[t].executed
    /\ th[t].meta.k = 2
    /\ th[t].planned_spans.cap >= 2

\* C7: the arena bytes handed out to two live cycles never overlap.
C7_ExclusiveArena ==
  \A t, u \in active :
    (t # u /\ th[t].ma.built /\ th[u].ma.built) =>
      ~Overlap(th[t].ma.base, th[t].ma.base + th[t].ma.cur,
               th[u].ma.base, th[u].ma.base + th[u].ma.cur)

\* C8: an execute() runs on the method its own thread's cycle bound.
C8_ExecOwnMethod ==
  \A t \in active : th[t].executed => th[t].execOn = t

\* C9: while the method, the MemoryManager or the HierarchicalAllocator exists,
\* and at every statement that works on the method, its inputs or its outputs,
\* the planned buffers and the span table are allocated; when the cycle is
\* discarded the views are gone and the buffers are released.
C9_ViewsDieFirst ==
  \A t \in active :
    LET me == th[t] IN
    Alive =>
      /\ (\/ me.method.bound \/ me.mm.built \/ me.ha.built
          \/ me.pc \in {"inputs", "exec", "outputs", "dump", "free", "ret",
                        "d_method", "d_mm"}) => BuffersComplete(t)
      /\ me.pc \in {"inputs", "exec", "outputs", "dump", "free", "ret", "d_method"} =>
           me.method.bound
      /\ me.pc = "done" =>
           /\ OwnBlocks(t) = {}
           /\ ~me.method.bound /\ ~me.mm.built /\ ~me.ha.built

C9_Witness ==
  \E t \in active :
    /\ Alive
    /\ th[t].pc = "done"
    /\ th[t].executed
    /\ th[t].meta.k >= 1
    /\ OwnBlocks(t) = {}

\* C10: a program that failed to load is neither reported as loaded nor queried.
C10_FailedLoadStops ==
  \A t \in active :
    ~th[t].programOk => ~th[t].loggedLoaded /\ ~th[t].queried

====
